---- MODULE Spec2Model ----
(***************************************************************************)
(* pynativefiledialog: the dialog session NativeFileDialog._get_paths, its *)
(* four facade operations, the FileFilter helpers it uses and the COM      *)
(* objects it talks to.                                                    *)
(*                                                                         *)
(* Text is a sequence of one-character strings, so that prefix, suffix,    *)
(* split and join are computed as Python computes them.  A bitset (DWORD,  *)
(* IntFlag) is the set of the positions of its set bits; bitwise OR is set *)
(* union.  An HRESULT is a signed 32-bit integer.  An interface pointer is *)
(* 0 (null) or the identity of the COM object it refers to.                *)
(***************************************************************************)
EXTENDS Integers, Sequences, FiniteSets, TLC

(***************************************************************************)
(* Bounds of the model.                                                    *)
(***************************************************************************)
\* The most items the shell reports for one open dialog.
MaxItems == 2
\* The most interop calls that return a failure code in one session.
MaxFaults == 1
\* The longest extension text a caller passes to _normalize.
MaxExtLen == 3
\* The most extensions a caller gives one FileFilter.
MaxExts == 2
\* The most times a caller passes a text through _normalize.
MaxNormalize == 2
\* The most threads that run a dialog session at the same time.
MaxThreads == 2
\* the assignments to a filter's extensions that follow its construction
MaxAssign == 2

(***************************************************************************)
(* Python str operations.                                                  *)
(***************************************************************************)
\* Python values that may be None: None, or a str with its text
None == [type |-> "NoneType"]
Str(s) == [type |-> "str", v |-> s]
\* bool(x) of None or a str
Truthy(x) == x.type # "NoneType" /\ x.v # <<>>

StartsWith(s, p) ==
    /\ Len(p) <= Len(s)
    /\ SubSeq(s, 1, Len(p)) = p

EndsWith(s, p) ==
    /\ Len(p) <= Len(s)
    /\ SubSeq(s, Len(s) - Len(p) + 1, Len(s)) = p

\* str.endswith(tuple): any of the suffixes
EndsWithAny(s, sufs) ==
    \E k \in 1..Len(sufs) : EndsWith(s, sufs[k])

UpperChars == <<"A","B","C","D","E","F","G","H","I","J","K","L","M",
                "N","O","P","Q","R","S","T","U","V","W","X","Y","Z">>
LowerChars == <<"a","b","c","d","e","f","g","h","i","j","k","l","m",
                "n","o","p","q","r","s","t","u","v","w","x","y","z">>

LowerChar(c) ==
    IF \E k \in 1..26 : UpperChars[k] = c
    THEN LowerChars[CHOOSE k \in 1..26 : UpperChars[k] = c]
    ELSE c

\* str.lower()
Lower(s) == [k \in 1..Len(s) |-> LowerChar(s[k])]

\* str.lstrip(chars): drop the leading characters that are in chars
RECURSIVE LStrip(_, _)
LStrip(s, chars) ==
    IF s # <<>> /\ Head(s) \in chars THEN LStrip(Tail(s), chars) ELSE s

\* sep.join(parts)
RECURSIVE Join(_, _)
Join(parts, sep) ==
    IF parts = <<>> THEN <<>>
    ELSE IF Len(parts) = 1 THEN parts[1]
    ELSE parts[1] \o sep \o Join(Tail(parts), sep)

\* s.split(c) for a one-character separator: "" splits to [""]
RECURSIVE SplitFrom(_, _, _)
SplitFrom(s, c, cur) ==
    IF s = <<>> THEN <<cur>>
    ELSE IF Head(s) = c THEN <<cur>> \o SplitFrom(Tail(s), c, <<>>)
    ELSE SplitFrom(Tail(s), c, Append(cur, Head(s)))

Split(s, c) == SplitFrom(s, c, <<>>)

WILDCARD == <<"*", ".", "*">>

(***************************************************************************)
(* class FileFilter.  An object is [class, label, _extensions].            *)
(***************************************************************************)
\* _normalize with the prefix "*." added whether or not a * leads
_normalize_alwaysprefix(ext) ==
    IF ext = <<>> \/ ext \in {<<"*">>, <<".">>, WILDCARD}
    THEN WILDCARD
    ELSE LET e1 == IF EndsWith(ext, <<".">>) THEN ext \o <<"*">> ELSE ext
             e2 == IF StartsWith(e1, <<".">>) THEN <<"*">> \o e1 ELSE e1
         IN  <<"*", ".">> \o e2

_normalize(ext) ==
    IF ext = <<>> \/ ext \in {<<"*">>, <<".">>, WILDCARD}
    THEN WILDCARD
    ELSE LET e1 == IF EndsWith(ext, <<".">>) THEN ext \o <<"*">> ELSE ext
             e2 == IF StartsWith(e1, <<".">>) THEN <<"*">> \o e1 ELSE e1
         IN  IF ~StartsWith(e2, <<"*">>) THEN <<"*", ".">> \o e2 ELSE e2

_normalize_label(label, extensions) ==
    IF extensions # <<>> /\ ~(\E k \in 1..Len(extensions) : extensions[k] = WILDCARD)
    THEN LET cleaned == [k \in 1..Len(extensions) |->
                            LStrip(extensions[k], {"*", "."})]
         IN  label \o <<" ", "(">> \o Join(cleaned, <<",", " ">>) \o <<")">>
    ELSE label

\* __init__ followed by the extensions setter
FileFilter(label, extensions) ==
    LET exts == [k \in 1..Len(extensions) |-> _normalize(extensions[k])]
    IN  [class |-> "FileFilter",
         label |-> _normalize_label(label, exts), _extensions |-> exts]

\* lines 101-104: the extensions setter, f.extensions = values
extensions_setter(f, values) ==
    LET exts == [k \in 1..Len(values) |-> _normalize(values[k])]
    IN  [f EXCEPT !._extensions = exts,
                  !.label = _normalize_label(f.label, exts)]

\* pattern without the "*.*" of a filter that has no extensions
pattern_noempty(f) == Join(f._extensions, <<";">>)

pattern(f) ==
    IF f._extensions = <<>> THEN WILDCARD ELSE Join(f._extensions, <<";">>)

\* matches comparing the path as given, not lowercased
matches_nolower(f, path) ==
    IF \/ f._extensions = <<>>
       \/ \E k \in 1..Len(f._extensions) : f._extensions[k] = WILDCARD
    THEN TRUE
    ELSE EndsWithAny(path,
                     [k \in 1..Len(f._extensions) |-> LStrip(f._extensions[k], {"*"})])

matches(f, path) ==
    IF \/ f._extensions = <<>>
       \/ \E k \in 1..Len(f._extensions) : f._extensions[k] = WILDCARD
    THEN TRUE
    ELSE EndsWithAny(Lower(path),
                     [k \in 1..Len(f._extensions) |-> LStrip(f._extensions[k], {"*"})])

\* normalize_extension appending the first pattern with its * kept
normalize_extension_keepstar(f, path) ==
    IF matches(f, path) THEN path ELSE path \o f._extensions[1]

\* normalize_extension appending without asking matches
normalize_extension_nomatch(f, path) ==
    IF f._extensions = <<>> THEN path
    ELSE path \o LStrip(f._extensions[1], {"*"})

normalize_extension(f, path) ==
    IF matches(f, path) THEN path ELSE path \o LStrip(f._extensions[1], {"*"})

\* raw (label, pattern) pairs -> FileFilter objects
validate(filters) ==
    [k \in 1..Len(filters) |-> FileFilter(filters[k][1], Split(filters[k][2], ";"))]

\* A caller's sequence may hold objects that are no FileFilter: prepare keeps
\* the FileFilter objects, in order.
IsFileFilter(x) == x.class = "FileFilter"

RECURSIVE prepare(_)
prepare(filetypes) ==
    IF filetypes = <<>> THEN <<>>
    ELSE IF IsFileFilter(Head(filetypes))
         THEN <<<<Head(filetypes).label, pattern(Head(filetypes))>>>>
                  \o prepare(Tail(filetypes))
         ELSE prepare(Tail(filetypes))

(***************************************************************************)
(* Flags, result codes and messages.                                       *)
(***************************************************************************)
\* class FOS: each flag by the position of its bit (0x2 is bit 1, ...)
FOS == [OVERWRITEPROMPT |-> 1, STRICTFILETYPES |-> 2, NOCHANGEDIR |-> 3,
        PICKFOLDERS |-> 5, FORCEFILESYSTEM |-> 6, ALLNONSTORAGEITEMS |-> 7,
        NOVALIDATE |-> 8, ALLOWMULTISELECT |-> 9, PATHMUSTEXIST |-> 11,
        FILEMUSTEXIST |-> 12, CREATEPROMPT |-> 13, SHAREAWARE |-> 14,
        NOREADONLYRETURN |-> 15, NOTESTFILECREATE |-> 16, HIDEMRUPLACES |-> 17,
        HIDEPINNEDPLACES |-> 18, NODEREFERENCELINKS |-> 20,
        OKBUTTONNEEDSINTERACTION |-> 21, DONTADDTORECENT |-> 25,
        FORCESHOWHIDDEN |-> 28, DEFAULTNOMINIMODE |-> 29,
        FORCEPREVIEWPANEON |-> 30, SUPPORTSTREAMABLEITEMS |-> 31]

\* 0x800704C7 as its high and low 16-bit words
ERROR_CANCELLED == <<32775, 1223>>

\* ctypes.c_long(v).value: the unsigned 32-bit value read as signed
c_long(v) ==
    IF v[1] >= 32768 THEN (v[1] - 65536) * 65536 + v[2] ELSE v[1] * 65536 + v[2]

\* The codes an interop call returns here: S_OK or E_FAIL (0x80004005).
CallResults == {0, -2147467259}
\* The codes Show returns: S_OK, a positive success code, the user's cancel,
\* E_FAIL.
ShowResults == {0, 1, c_long(ERROR_CANCELLED), -2147467259}

HexChars == <<"0","1","2","3","4","5","6","7","8","9","a","b","c","d","e","f">>

RECURSIVE HexDigits(_)
HexDigits(n) ==
    IF n < 16 THEN <<HexChars[n + 1]>>
    ELSE Append(HexDigits(n \div 16), HexChars[(n % 16) + 1])

\* f"{hr:#x}": the sign, 0x, the hexadecimal digits of the magnitude
FormatHex(n) ==
    IF n < 0 THEN <<"-", "0", "x">> \o HexDigits(0 - n)
    ELSE <<"0", "x">> \o HexDigits(n)

OSError(message, detail) ==
    [type |-> "OSError", message |-> message, detail |-> detail]

(***************************************************************************)
(* The state: the locals of one _get_paths call, and what the COM runtime  *)
(* and the shell hold.                                                     *)
(***************************************************************************)
VARIABLES
    pc,                 \* where the session is
    op,                 \* the facade operation that was called
    args,               \* the arguments _get_paths was called with
    flags,              \* flags = DWORD()
    COM, DIR, item, mult,   \* the four interface pointers
    paths,              \* paths: List[str]
    initialized,        \* initialized
    prepared_filters,   \* what FileFilter.prepare returned
    hr,                 \* the code Show returned
    pathsnum,           \* pathsnum.value
    i,                  \* the loop index of the open-mode loop
    path,               \* path.value, the last name read (empty before)
    filetypeidx,        \* filetypeidx.value
    error,              \* the exception raised, or None
    result,             \* what _get_paths returned, or None
    objs,               \* the COM objects handed out: kind, acquired, released
    dialog,             \* the dialog object's state: options, file types, ...
    shellItems,         \* the paths of the items the user chose (open mode)
    comInits,           \* CoInitialize calls that succeeded, CoUninitialize calls
    calls,              \* the interop calls made, in order
    swallowed,          \* the calls whose failure code the session ignored
    faults              \* the number of calls that returned a failure code

sessionVars == <<pc, op, args, flags, COM, DIR, item, mult, paths, initialized,
                 prepared_filters, hr, pathsnum, i, path, filetypeidx, error,
                 result, objs, dialog, shellItems, comInits, calls, swallowed,
                 faults>>

locals == <<flags, COM, DIR, item, mult, paths, initialized, prepared_filters,
            hr, pathsnum, i, path, filetypeidx, error, result>>

(***************************************************************************)
(* The inputs: what callers pass and what the shell answers.               *)
(***************************************************************************)
T_out == <<"o", "u", "t">>
T_out_txt == <<"o", "u", "t", ".", "t", "x", "t">>
T_OUT_TXT == <<"O", "U", "T", ".", "T", "X", "T">>

\* The paths a save dialog's item may name.
SavePaths == {T_out, T_out_txt, T_OUT_TXT}
\* The paths the items of an open dialog may name.
ItemPaths == {<<"a">>, <<"b">>}

F_Text == FileFilter(<<"T", "e", "x", "t">>, << <<"t", "x", "t">> >>)
F_All == FileFilter(<<"A", "l", "l">>, << WILDCARD >>)
F_Images == FileFilter(<<"I", "m", "a", "g", "e", "s">>, << <<"p", "n", "g">>, <<"j", "p", "g">> >>)
F_Upper == FileFilter(<<"U", "p", "p", "e", "r">>, << <<"T", "X", "T">> >>)
\* an element of the caller's sequence that is no FileFilter
NotAFilter == [class |-> "tuple", label |-> <<>>, _extensions |-> <<>>]

FilterLists ==
    { <<>>, <<F_Text, F_All>>, <<F_Images>>, <<NotAFilter, F_Upper>> }

\* title, init_file, confirm_button_label, input_label: none given, all given
Customs ==
    { [title |-> None, init_file |-> None,
       confirm_button_label |-> None, input_label |-> None],
      [title |-> Str(<<"t">>), init_file |-> Str(<<"f">>),
       confirm_button_label |-> Str(<<"c">>), input_label |-> Str(<<"l">>)] }

InitDirs == {None, Str(<<"d">>)}

\* The flags argument of a facade operation.
CallerFlags == { {}, {FOS.ALLOWMULTISELECT, FOS.NOCHANGEDIR} }

\* The options a new dialog object reports.
InitialOptions == { {}, {FOS.OVERWRITEPROMPT, FOS.ALLOWMULTISELECT} }

\* DWORD: 32 bits
DWORD(bits) == bits \cap (0..31)

(***************************************************************************)
(* No session is running.                                                  *)
(***************************************************************************)
NoArgs ==
    [title |-> None, init_dir |-> None, init_file |-> None,
     multichoice |-> FALSE, confirm_button_label |-> None,
     input_label |-> None, add_flags |-> {}, file_type_filters |-> <<>>,
     save_mode |-> FALSE]

NoDialog ==
    [initialOptions |-> {}, options |-> {}, written |-> <<>>,
     fileTypes |-> <<>>, fileTypeIdx |-> 0, folder |-> 0, shown |-> 0]

SessionIdle ==
    /\ pc = "idle"
    /\ op = [name |-> "none", flags |-> {}, file_type_filters |-> <<>>]
    /\ args = NoArgs
    /\ flags = {}
    /\ COM = 0 /\ DIR = 0 /\ item = 0 /\ mult = 0
    /\ paths = <<>>
    /\ initialized = FALSE
    /\ prepared_filters = <<>>
    /\ hr = 0
    /\ pathsnum = 0
    /\ i = 0
    /\ path = <<>>
    /\ filetypeidx = 0
    /\ error = None
    /\ result = None
    /\ objs = <<>>
    /\ dialog = NoDialog
    /\ shellItems = <<>>
    /\ comInits = [init |-> 0, uninit |-> 0]
    /\ calls = <<>>
    /\ swallowed = {}
    /\ faults = 0

(***************************************************************************)
(* A FileFilter in the hands of a caller: the values a caller gives, the   *)
(* object built from them and what its methods return.                     *)
(***************************************************************************)
VARIABLES
    fpc,                \* where the caller of FileFilter is
    given,              \* what the caller gives: ext, label, extensions, path
    normalized,         \* what the successive calls of _normalize returned
    ff,                 \* the FileFilter object
    ret,                \* the last value a method returned: method, value
    assigned            \* the values assigned to ff.extensions since it
                        \* was built, in order

filterVars == <<fpc, given, normalized, ff, ret, assigned>>

NoGiven == [ext |-> <<>>, label |-> <<>>, extensions |-> <<>>, path |-> <<>>]
NoFilter == [class |-> "NoneType", label |-> <<>>, _extensions |-> <<>>]
NoReturn == [f |-> "none", v |-> <<>>]

FilterIdle ==
    /\ fpc = "idle"
    /\ given = NoGiven
    /\ normalized = <<>>
    /\ ff = NoFilter
    /\ ret = NoReturn
    /\ assigned = <<>>

(***************************************************************************)
(* Sessions run by several threads at once: each thread has its own locals *)
(* and its own COM runtime; the COM objects of all of them live in one     *)
(* heap, where the address of a freed object may be given out again.       *)
(***************************************************************************)
VARIABLES
    th,                 \* per thread: the locals of its _get_paths call
    heap,               \* per address: the thread that acquired the object
                        \* there, and the references held on it (0: freed)
    com,                \* per thread: CoInitialize calls that succeeded,
                        \* CoUninitialize calls
    tcalls,             \* per thread: the interop calls it made, in order
    tfaults             \* the number of calls that returned a failure code

threadVars == <<th, heap, com, tcalls, tfaults>>

vars == <<sessionVars, filterVars, threadVars>>

Threads == 1..MaxThreads

\* lines 412-419: the locals of one call (save_mode and init_dir are its
\* arguments: save or open, a directory given or not)
NoThread ==
    [pc |-> "idle", save_mode |-> FALSE, init_dir |-> FALSE,
     COM |-> 0, DIR |-> 0, item |-> 0, mult |-> 0, initialized |-> FALSE,
     pathsnum |-> 0, i |-> 0, error |-> None]

\* No thread is there to call _get_paths.
ThreadsIdle ==
    /\ th = <<>>
    /\ heap = <<>>
    /\ com = <<>>
    /\ tcalls = <<>>
    /\ tfaults = 0

\* Each thread is about to call _get_paths.
ThreadsReady ==
    /\ th = [t \in Threads |-> NoThread]
    /\ heap = <<>>
    /\ com = [t \in Threads |-> [init |-> 0, uninit |-> 0]]
    /\ tcalls = [t \in Threads |-> <<>>]
    /\ tfaults = 0

(***************************************************************************)
(* Initial state: no session is running, no FileFilter is in use.          *)
(***************************************************************************)
Init == SessionIdle /\ FilterIdle /\ ThreadsIdle

(***************************************************************************)
(* The facade operations: each starts one session.                         *)
(***************************************************************************)
\* _get_paths is entered: lines 412-419 set the locals
_get_paths(name, callerFlags, callerFilters, a) ==
    /\ pc = "idle"
    /\ pc' = "CoInitialize"
    /\ op' = [name |-> name, flags |-> callerFlags,
              file_type_filters |-> callerFilters]
    /\ args' = a
    /\ UNCHANGED <<locals, objs, dialog, shellItems, comInits, calls,
                   swallowed, faults>>
    /\ UNCHANGED <<filterVars, threadVars>>

get_dir ==
    \E c \in Customs, d \in InitDirs, fl \in CallerFlags :
        _get_paths("get_dir", fl, <<>>,
            [NoArgs EXCEPT !.title = c.title, !.init_dir = d,
                           !.confirm_button_label = c.confirm_button_label,
                           !.input_label = c.input_label,
                           !.add_flags = {FOS.PICKFOLDERS} \cup fl])

get_file ==
    \E c \in Customs, d \in InitDirs, fl \in CallerFlags, fs \in FilterLists :
        _get_paths("get_file", fl, fs,
            [NoArgs EXCEPT !.title = c.title, !.init_dir = d,
                           !.init_file = c.init_file,
                           !.confirm_button_label = c.confirm_button_label,
                           !.input_label = c.input_label,
                           !.add_flags = fl,
                           !.file_type_filters = fs])

get_files ==
    \E c \in Customs, d \in InitDirs, fl \in CallerFlags, fs \in FilterLists :
        _get_paths("get_files", fl, fs,
            [NoArgs EXCEPT !.title = c.title, !.init_dir = d,
                           !.init_file = c.init_file,
                           !.multichoice = TRUE,
                           !.confirm_button_label = c.confirm_button_label,
                           !.input_label = c.input_label,
                           !.add_flags = fl,
                           !.file_type_filters = fs])

\* set_file's add_flags with STRICTFILETYPES whatever the filters are
set_file_add_flags_alwaysstrict(file_type_filters, callerFlags) ==
    {FOS.STRICTFILETYPES} \cup callerFlags

\* line 694: (bool(file_type_filters) and FOS.STRICTFILETYPES) | flags
set_file_add_flags(file_type_filters, callerFlags) ==
    (IF file_type_filters # <<>> THEN {FOS.STRICTFILETYPES} ELSE {})
        \cup callerFlags

set_file ==
    \E c \in Customs, d \in InitDirs, fl \in CallerFlags, fs \in FilterLists :
        _get_paths("set_file", fl, fs,
            [NoArgs EXCEPT !.title = c.title, !.init_dir = d,
                           !.init_file = c.init_file,
                           !.confirm_button_label = c.confirm_button_label,
                           !.input_label = c.input_label,
                           !.add_flags = set_file_add_flags(fs, fl),
                           !.file_type_filters = fs,
                           !.save_mode = TRUE])

(***************************************************************************)
(* The COM side: objects, reference counts, the log of calls.              *)
(***************************************************************************)
is_null_ptr(p) == p = 0

\* A call that hands out an interface pointer creates an object the caller
\* holds one reference to.
NewObject(kind) == [kind |-> kind, acquired |-> 1, released |-> 0]

Call(f, p) == [f |-> f, p |-> p]

\* The codes the calls of one step may return: at most MaxFaults calls of a
\* session return a failure code.
Failed(h) == IF h < 0 THEN 1 ELSE 0

\* Release on a pointer whose reference the session no longer holds: the
\* object may be gone, and the call may fault (ctypes raises OSError for an
\* access violation) or may return.
OverReleased(os, p) == os[p].released >= os[p].acquired

ReleaseOne(os, p) == [os EXCEPT ![p].released = @ + 1]

RECURSIVE ReleaseAll(_, _)
ReleaseAll(os, ps) ==
    IF ps = <<>> THEN os ELSE ReleaseAll(ReleaseOne(os, Head(ps)), Tail(ps))

\* VTableFunc.free: the pointers Release is called on, in order
free(com_obj) == SelectSeq(com_obj, LAMBDA p : ~is_null_ptr(p))

(***************************************************************************)
(* The session, one step per commented block of _get_paths.                *)
(***************************************************************************)
\* raise OSError(...) inside the try: control goes to the finally block
Raise(e) ==
    /\ error' = e
    /\ pc' = "finally"

\* lines 422-426
CoInitializeStep ==
    /\ pc = "CoInitialize"
    /\ \E h \in CallResults :
        /\ faults + Failed(h) <= MaxFaults
        /\ faults' = faults + Failed(h)
        /\ calls' = Append(calls, Call("CoInitialize", 0))
        /\ IF h < 0
           THEN /\ Raise(OSError("CoInitialize failed", <<>>))
                /\ UNCHANGED <<initialized, comInits>>
           ELSE /\ initialized' = TRUE
                /\ comInits' = [comInits EXCEPT !.init = @ + 1]
                /\ pc' = "CoCreateInstance"
                /\ UNCHANGED error
    /\ UNCHANGED <<op, args, flags, COM, DIR, item, mult, paths,
                   prepared_filters, hr, pathsnum, i, path, filetypeidx,
                   result, objs, dialog, shellItems, swallowed>>
    /\ UNCHANGED <<filterVars, threadVars>>

\* The test of lines 429-446, without the test for a null pointer
CreateFailed_nonullcheck(h, p) == h < 0

\* lines 429-446: the test that raises "CoCreateInstance failed"
CreateFailed(h, p) == h < 0 \/ is_null_ptr(p)

\* lines 428-447: a failure code, or success with a null pointer, raises
CoCreateInstanceStep ==
    /\ pc = "CoCreateInstance"
    /\ \E h \in CallResults, null \in BOOLEAN, o \in InitialOptions :
        LET ptr == IF h < 0 \/ null THEN 0 ELSE Len(objs) + 1
        IN  /\ faults + Failed(h) <= MaxFaults
            /\ faults' = faults + Failed(h)
            /\ calls' = Append(calls, Call("CoCreateInstance", 0))
            /\ COM' = ptr
            /\ IF is_null_ptr(ptr)
               THEN /\ o = {} /\ (h < 0 => ~null)
                    /\ UNCHANGED <<objs, dialog>>
               ELSE /\ objs' = Append(objs, NewObject("dialog"))
                    /\ dialog' = [NoDialog EXCEPT !.initialOptions = o,
                                                  !.options = o]
            /\ IF CreateFailed(h, ptr)
               THEN Raise(OSError("CoCreateInstance failed", <<>>))
               ELSE /\ pc' = "options"
                    /\ UNCHANGED error
    /\ UNCHANGED <<op, args, flags, DIR, item, mult, paths, initialized,
                   prepared_filters, hr, pathsnum, i, path, filetypeidx,
                   result, shellItems, comInits, swallowed>>
    /\ UNCHANGED <<filterVars, threadVars>>

\* The value the session ORs into the options it read (lines 466-472).
\* OptionsToSet as a blind overwrite: what was read is dropped
OptionsToSet_overwrite(read, multichoice, add_flags) ==
    DWORD({FOS.FORCEFILESYSTEM, FOS.PATHMUSTEXIST, FOS.FILEMUSTEXIST}
               \cup (IF multichoice THEN {FOS.ALLOWMULTISELECT} ELSE {})
               \cup add_flags)

OptionsToSet(read, multichoice, add_flags) ==
    DWORD(read \cup {FOS.FORCEFILESYSTEM, FOS.PATHMUSTEXIST, FOS.FILEMUSTEXIST}
               \cup (IF multichoice THEN {FOS.ALLOWMULTISELECT} ELSE {})
               \cup add_flags)

\* lines 464-473: GetOptions, OR, SetOptions; neither result code is looked at
ConfigureOptions ==
    /\ pc = "options"
    /\ \E hg \in CallResults, hs \in CallResults :
        /\ faults + Failed(hg) + Failed(hs) <= MaxFaults
        /\ faults' = faults + Failed(hg) + Failed(hs)
        /\ LET read == IF hg >= 0 THEN dialog.options ELSE flags
               new == OptionsToSet(read, args.multichoice, args.add_flags)
           IN  /\ flags' = new
               /\ dialog' = [dialog EXCEPT
                                !.written = Append(@, new),
                                !.options = IF hs >= 0 THEN new ELSE @]
        /\ swallowed' = swallowed
                          \cup (IF hg < 0 THEN {"GetOptions"} ELSE {})
                          \cup (IF hs < 0 THEN {"SetOptions"} ELSE {})
    /\ calls' = calls \o <<Call("GetOptions", COM), Call("SetOptions", COM)>>
    /\ pc' = "filters"
    /\ UNCHANGED <<op, args, COM, DIR, item, mult, paths, initialized,
                   prepared_filters, hr, pathsnum, i, path, filetypeidx,
                   error, result, objs, shellItems, comInits>>
    /\ UNCHANGED <<filterVars, threadVars>>

\* lines 475-484
ConfigureFilters ==
    /\ pc = "filters"
    /\ prepared_filters' = prepare(args.file_type_filters)
    /\ IF prepared_filters' # <<>>
       THEN \E ht \in CallResults, hi \in CallResults :
                /\ faults + Failed(ht) + Failed(hi) <= MaxFaults
                /\ faults' = faults + Failed(ht) + Failed(hi)
                /\ dialog' = [dialog EXCEPT
                                 !.fileTypes =
                                     IF ht >= 0 THEN prepared_filters' ELSE @,
                                 !.fileTypeIdx = IF hi >= 0 THEN 1 ELSE @]
                /\ swallowed' = swallowed
                                  \cup (IF ht < 0 THEN {"SetFileType"} ELSE {})
                                  \cup (IF hi < 0 THEN {"SetFileTypeIdx"} ELSE {})
                /\ calls' = calls \o <<Call("SetFileType", COM),
                                       Call("SetFileTypeIdx", COM)>>
       ELSE UNCHANGED <<faults, dialog, swallowed, calls>>
    /\ pc' = "customize"
    /\ UNCHANGED <<op, args, flags, COM, DIR, item, mult, paths, initialized,
                   hr, pathsnum, i, path, filetypeidx, error, result, objs,
                   shellItems, comInits>>
    /\ UNCHANGED <<filterVars, threadVars>>

\* The four optional customizations, in the order of lines 487-494.
Customizations ==
    << <<"SetTitle", args.title>>, <<"SetFileName", args.init_file>>,
       <<"SetOkBtnTxt", args.confirm_button_label>>,
       <<"SetFnLabel", args.input_label>> >>

\* lines 486-494: each call is made when its argument is given; no result
\* code is looked at
Customize ==
    /\ pc = "customize"
    /\ \E hs \in [1..4 -> CallResults] :
        LET made == {k \in 1..4 : Truthy(Customizations[k][2])}
            bad == {k \in made : hs[k] < 0}
        IN  /\ \A k \in (1..4) \ made : hs[k] = 0
            /\ faults + Cardinality(bad) <= MaxFaults
            /\ faults' = faults + Cardinality(bad)
            /\ swallowed' = swallowed \cup {Customizations[k][1] : k \in bad}
            /\ calls' = calls \o
                 [k \in 1..Cardinality(made) |->
                    Call(Customizations[
                           CHOOSE m \in made :
                               Cardinality({n \in made : n < m}) = k - 1][1],
                         COM)]
    /\ pc' = "folder"
    /\ UNCHANGED <<op, args, flags, COM, DIR, item, mult, paths, initialized,
                   prepared_filters, hr, pathsnum, i, path, filetypeidx,
                   error, result, objs, dialog, shellItems, comInits>>
    /\ UNCHANGED <<filterVars, threadVars>>

\* lines 496-501: a directory that does not resolve is skipped
SetInitialDir ==
    /\ pc = "folder"
    /\ IF Truthy(args.init_dir)
       THEN \E hc \in CallResults, hf \in CallResults :
                /\ (hc < 0 => hf = 0)
                /\ faults + Failed(hc) + Failed(hf) <= MaxFaults
                /\ faults' = faults + Failed(hc) + Failed(hf)
                /\ IF hc >= 0
                   THEN /\ objs' = Append(objs, NewObject("folder"))
                        /\ DIR' = Len(objs) + 1
                        /\ dialog' = [dialog EXCEPT
                                         !.folder = IF hf >= 0 THEN DIR' ELSE @]
                        /\ swallowed' = swallowed
                               \cup (IF hf < 0 THEN {"SetFolder"} ELSE {})
                        /\ calls' = calls \o
                               <<Call("SHCreateItemFromParsingName", 0),
                                 Call("SetFolder", COM)>>
                   ELSE /\ calls' = Append(calls,
                               Call("SHCreateItemFromParsingName", 0))
                        /\ UNCHANGED <<objs, DIR, dialog, swallowed>>
       ELSE UNCHANGED <<faults, objs, DIR, dialog, swallowed, calls>>
    /\ pc' = "Show"
    /\ UNCHANGED <<op, args, flags, COM, item, mult, paths, initialized,
                   prepared_filters, hr, pathsnum, i, path, filetypeidx,
                   error, result, shellItems, comInits>>
    /\ UNCHANGED <<filterVars, threadVars>>

\* What follows Show, by its result code (lines 506-513, 532).
\* AfterShow without the test for the cancel code
AfterShow_cancelraises(h) ==
    IF h < 0 THEN "raise"
    ELSE IF args.save_mode THEN "extract_save" ELSE "extract_open"

\* AfterShow with a failure code of Show ignored
AfterShow_noraise(h) ==
    IF h # c_long(ERROR_CANCELLED)
    THEN IF h < 0 THEN "finally"
         ELSE IF args.save_mode THEN "extract_save" ELSE "extract_open"
    ELSE "finally"

\* AfterShow reading the results whatever code Show returned, the cancel
\* code apart
AfterShow_nofailuretest(h) ==
    IF h # c_long(ERROR_CANCELLED)
    THEN IF args.save_mode THEN "extract_save" ELSE "extract_open"
    ELSE "finally"

AfterShow(h) ==
    IF h # c_long(ERROR_CANCELLED)
    THEN IF h < 0 THEN "raise"
         ELSE IF args.save_mode THEN "extract_save" ELSE "extract_open"
    ELSE "finally"

\* lines 503-508
ShowStep ==
    /\ pc = "Show"
    /\ \E h \in ShowResults :
        /\ faults + (IF AfterShow(h) = "raise" THEN 1 ELSE 0) <= MaxFaults
        /\ faults' = faults + (IF AfterShow(h) = "raise" THEN 1 ELSE 0)
        /\ hr' = h
        /\ IF AfterShow(h) = "raise"
           THEN Raise(OSError("Dialog failed with HRESULT", FormatHex(h)))
           ELSE /\ pc' = AfterShow(h)
                /\ UNCHANGED error
    /\ dialog' = [dialog EXCEPT !.shown = @ + 1]
    /\ calls' = Append(calls, Call("Show", COM))
    /\ UNCHANGED <<op, args, flags, COM, DIR, item, mult, paths, initialized,
                   prepared_filters, pathsnum, i, path, filetypeidx, result,
                   objs, shellItems, comInits, swallowed>>
    /\ UNCHANGED <<filterVars, threadVars>>

\* seq[n] in Python: n counts from 0, a negative n counts from the end,
\* anything else raises IndexError
PyIndex(seq, n) ==
    IF 0 <= n /\ n < Len(seq) THEN [ok |-> TRUE, v |-> seq[n + 1]]
    ELSE IF n < 0 /\ 0 - n <= Len(seq)
         THEN [ok |-> TRUE, v |-> seq[Len(seq) + n + 1]]
         ELSE [ok |-> FALSE, v |-> <<>>]

\* SaveName reading the filter at idx, as if the sequence counted from 1
SaveName_countfromone(filters, idx, name) ==
    LET raw_filter == PyIndex(filters, idx)
    IN  IF raw_filter.ok
        THEN normalize_extension(validate(<<raw_filter.v>>)[1], name)
        ELSE name

\* lines 523-528: the name appended in save mode; IndexError falls back to
\* the name as read
SaveName(filters, idx, name) ==
    LET raw_filter == PyIndex(filters, idx - 1)
    IN  IF raw_filter.ok
        THEN normalize_extension(validate(<<raw_filter.v>>)[1], name)
        ELSE name

\* lines 513-530: GetResult, GetName, the item's Release, GetFileTypeIdx
ExtractSave ==
    /\ pc = "extract_save"
    /\ \E hg \in CallResults, hn \in CallResults, hi \in CallResults,
          p \in SavePaths, k \in 0..(Len(prepared_filters) + 1) :
        /\ faults + Failed(hg) + Failed(hn) + Failed(hi) <= MaxFaults
        /\ faults' = faults + Failed(hg) + Failed(hn) + Failed(hi)
        /\ IF hg < 0
           THEN /\ hn = 0 /\ hi = 0 /\ k = 0 /\ p = T_out
                /\ swallowed' = swallowed \cup {"GetResult"}
                /\ calls' = Append(calls, Call("GetResult", COM))
                /\ UNCHANGED <<item, objs, path, filetypeidx, paths>>
           ELSE /\ item' = Len(objs) + 1
                /\ objs' = ReleaseOne(Append(objs, NewObject("item")),
                                      Len(objs) + 1)
                /\ IF hn < 0
                   THEN /\ hi = 0 /\ k = 0 /\ p = T_out
                        /\ swallowed' = swallowed \cup {"GetName"}
                        /\ calls' = calls \o
                              <<Call("GetResult", COM), Call("GetName", item'),
                                Call("Release", item')>>
                        /\ UNCHANGED <<path, filetypeidx, paths>>
                   ELSE /\ (hi < 0 => k = 0)
                        /\ path' = p
                        /\ filetypeidx' = k
                        /\ paths' = Append(paths,
                                       SaveName(prepared_filters, k, p))
                        /\ swallowed' = swallowed
                              \cup (IF hi < 0 THEN {"GetFileTypeIdx"} ELSE {})
                        /\ calls' = calls \o
                              <<Call("GetResult", COM), Call("GetName", item'),
                                Call("Release", item'),
                                Call("GetFileTypeIdx", COM)>>
    /\ pc' = "finally"
    /\ UNCHANGED <<op, args, flags, COM, DIR, mult, initialized,
                   prepared_filters, hr, pathsnum, i, error, result, dialog,
                   shellItems, comInits>>
    /\ UNCHANGED <<filterVars, threadVars>>

\* The selections an open dialog may hold when Show succeeded: one to
\* MaxItems files, neighbours in the selection named differently.
ItemSeqs ==
    {[k \in 1..n |-> IF k % 2 = 1 THEN <<"a">> ELSE <<"b">>] : n \in 1..MaxItems}

\* lines 534-539: GetResults, GetCount
ExtractOpen ==
    /\ pc = "extract_open"
    /\ \E hg \in CallResults, hc \in CallResults, items \in ItemSeqs :
        /\ faults + Failed(hg) + Failed(hc) <= MaxFaults
        /\ faults' = faults + Failed(hg) + Failed(hc)
        /\ IF hg < 0
           THEN /\ hc = 0 /\ items = <<CHOOSE x \in ItemPaths : TRUE>>
                /\ swallowed' = swallowed \cup {"GetResults"}
                /\ calls' = Append(calls, Call("GetResults", COM))
                /\ pc' = "finally"
                /\ UNCHANGED <<mult, objs, shellItems, pathsnum>>
           ELSE /\ mult' = Len(objs) + 1
                /\ objs' = Append(objs, NewObject("array"))
                /\ calls' = calls \o
                      <<Call("GetResults", COM), Call("GetCount", mult')>>
                /\ IF hc < 0
                   THEN /\ items = <<CHOOSE x \in ItemPaths : TRUE>>
                        /\ swallowed' = swallowed \cup {"GetCount"}
                        /\ pc' = "finally"
                        /\ UNCHANGED <<shellItems, pathsnum>>
                   ELSE /\ shellItems' = items
                        /\ pathsnum' = Len(items)
                        /\ pc' = IF Len(items) > 0 THEN "loop" ELSE "finally"
                        /\ UNCHANGED swallowed
    /\ UNCHANGED <<op, args, flags, COM, DIR, item, paths, initialized,
                   prepared_filters, hr, i, path, filetypeidx, error, result,
                   dialog, comInits>>
    /\ UNCHANGED <<filterVars, threadVars>>

\* Whether the loop goes on after index n was read.
LoopNext(n) == IF n + 1 < pathsnum THEN "loop" ELSE "finally"

\* lines 540-564: one pass of the loop: GetItemAt, GetName, the item's Release;
\* a failure code leaves the loop with break.  A failed GetItemAt leaves the
\* out-parameter as it was or clears it.
LoopStep ==
    /\ pc = "loop"
    /\ \E hi \in CallResults, hn \in CallResults, cleared \in BOOLEAN :
        /\ faults + Failed(hi) + Failed(hn) <= MaxFaults
        /\ faults' = faults + Failed(hi) + Failed(hn)
        /\ IF hi < 0
           THEN /\ hn = 0 /\ (item = 0 => cleared)
                /\ item' = IF cleared THEN 0 ELSE item
                /\ swallowed' = swallowed \cup {"GetItemAt"}
                /\ calls' = Append(calls, Call("GetItemAt", mult))
                /\ pc' = "finally"
                /\ UNCHANGED <<objs, path, paths, i>>
           ELSE /\ ~cleared
                /\ item' = Len(objs) + 1
                /\ objs' = ReleaseOne(Append(objs, NewObject("item")),
                                      Len(objs) + 1)
                /\ calls' = calls \o
                      <<Call("GetItemAt", mult), Call("GetName", item'),
                        Call("Release", item')>>
                /\ IF hn < 0
                   THEN /\ swallowed' = swallowed \cup {"GetName"}
                        /\ pc' = "finally"
                        /\ UNCHANGED <<path, paths, i>>
                   ELSE /\ path' = shellItems[i + 1]
                        /\ paths' = Append(paths, shellItems[i + 1])
                        /\ i' = i + 1
                        /\ pc' = LoopNext(i)
                        /\ UNCHANGED swallowed
    /\ UNCHANGED <<op, args, flags, COM, DIR, mult, initialized,
                   prepared_filters, hr, pathsnum, filetypeidx, error, result,
                   dialog, shellItems, comInits>>
    /\ UNCHANGED <<filterVars, threadVars>>

\* line 568: the pointers the finally block releases, in order
ToFree == free(<<item, mult, DIR, COM>>)

\* lines 566-570: release what is not null, then CoUninitialize.  A Release
\* on an over-released pointer may fault: the exception leaves the block at
\* once, and is what the session raises.
Finally ==
    /\ pc = "finally"
    /\ \E f \in {0} \cup {k \in 1..Len(ToFree) : OverReleased(objs, ToFree[k])} :
        LET done == IF f = 0 THEN ToFree ELSE SubSeq(ToFree, 1, f)
            uninit == f = 0 /\ initialized
        IN  /\ objs' = ReleaseAll(objs, done)
            /\ calls' = calls
                 \o [k \in 1..Len(done) |-> Call("Release", done[k])]
                 \o (IF uninit THEN <<Call("CoUninitialize", 0)>> ELSE <<>>)
            /\ comInits' = [comInits EXCEPT
                              !.uninit = IF uninit THEN @ + 1 ELSE @]
            /\ IF f > 0
               THEN /\ error' = OSError("access violation", <<>>)
                    /\ pc' = "raised"
               ELSE /\ pc' = IF error.type = "NoneType" THEN "return"
                             ELSE "raised"
                    /\ UNCHANGED error
    /\ UNCHANGED <<op, args, flags, COM, DIR, item, mult, paths, initialized,
                   prepared_filters, hr, pathsnum, i, path, filetypeidx,
                   result, dialog, shellItems, swallowed, faults>>
    /\ UNCHANGED <<filterVars, threadVars>>

List(v) == [type |-> "list", v |-> v]

\* ReturnValue without the collapse to a single path
ReturnValue_nocollapse(ps, multichoice) ==
    IF ps # <<>> THEN List(ps) ELSE None

\* lines 572-576: a single path when multichoice is off, None for nothing
ReturnValue(ps, multichoice) ==
    LET r == IF ps # <<>> /\ ~multichoice THEN Str(ps[1]) ELSE List(ps)
    IN  IF r.v # <<>> THEN r ELSE None

Return ==
    /\ pc = "return"
    /\ result' = ReturnValue(paths, args.multichoice)
    /\ pc' = "returned"
    /\ UNCHANGED <<op, args, flags, COM, DIR, item, mult, paths, initialized,
                   prepared_filters, hr, pathsnum, i, path, filetypeidx,
                   error, objs, dialog, shellItems, comInits, calls,
                   swallowed, faults>>
    /\ UNCHANGED <<filterVars, threadVars>>

Next ==
    \/ get_dir
    \/ get_file
    \/ get_files
    \/ set_file
    \/ CoInitializeStep
    \/ CoCreateInstanceStep
    \/ ConfigureOptions
    \/ ConfigureFilters
    \/ Customize
    \/ SetInitialDir
    \/ ShowStep
    \/ ExtractSave
    \/ ExtractOpen
    \/ LoopStep
    \/ Finally
    \/ Return

Spec == Init /\ [][Next]_vars

(***************************************************************************)
(* A caller of FileFilter: it passes a text through _normalize, builds a   *)
(* filter and calls its methods.                                           *)
(***************************************************************************)
\* The characters of the extension texts passed to _normalize.
ExtAlphabet == {"*", ".", "a"}
ExtStrings == UNION {[1..n -> ExtAlphabet] : n \in 0..MaxExtLen}

T_png == <<"p", "n", "g">>
T_jpg == <<"j", "p", "g">>
T_Images == <<"I", "m", "a", "g", "e", "s">>

T_png_jpg == <<"p", "n", "g", ";", "j", "p", "g">>

\* The extensions a caller gives a filter: the spellings of the wildcard,
\* plain, dotted, upper-case and dot-ended extensions, and two extensions
\* written as one text with the separator of patterns between them.
ExtEntries ==
    { <<>>, <<"*">>, <<".">>, WILDCARD, <<"*", ".">>, <<".", "*">>,
      T_png, T_jpg, <<"T", "X", "T">>, <<".", "t", "x", "t">>, <<"a", ".">>,
      T_png_jpg }
ExtLists == UNION {[1..n -> ExtEntries] : n \in 0..MaxExts}

\* The paths a caller asks a filter about.
FilterPaths ==
    { <<"a">>, <<"a", ".", "P", "N", "G">>, <<"a", ".", "t", "x", "t">>,
      <<"a", ".", "T", "X", "T">>, <<"b", ".", "j", "p", "g">>, <<"p", "n", "g">> }

\* A caller either has a text for _normalize or the label, the extensions
\* and a path for a filter.
Givens ==
    {[NoGiven EXCEPT !.ext = e] : e \in ExtStrings}
        \cup {[NoGiven EXCEPT !.label = T_Images, !.extensions = x, !.path = q] :
                  x \in ExtLists, q \in FilterPaths}

FilterInit ==
    /\ SessionIdle
    /\ ThreadsIdle
    /\ fpc = "given"
    /\ given \in Givens
    /\ normalized = <<>>
    /\ ff = NoFilter
    /\ ret = NoReturn
    /\ assigned = <<>>

\* FileFilter._normalize(text), then again on what it returned
Call_normalize ==
    /\ fpc = "given"
    /\ Len(normalized) < MaxNormalize
    /\ normalized' = Append(normalized,
           _normalize(IF normalized = <<>> THEN given.ext
                      ELSE normalized[Len(normalized)]))
    /\ UNCHANGED <<fpc, given, ff, ret, assigned, sessionVars, threadVars>>

\* FileFilter(label, extensions)
Construct ==
    /\ fpc = "given"
    /\ normalized = <<>>
    /\ ff' = FileFilter(given.label, given.extensions)
    /\ fpc' = "built"
    /\ UNCHANGED <<given, normalized, ret, assigned, sessionVars, threadVars>>

\* f.pattern
GetPattern ==
    /\ fpc = "built"
    /\ ret' = [f |-> "pattern", v |-> pattern(ff)]
    /\ UNCHANGED <<fpc, given, normalized, ff, assigned, sessionVars,
                   threadVars>>

\* f.matches(path)
CallMatches ==
    /\ fpc = "built"
    /\ ret' = [f |-> "matches", v |-> matches(ff, given.path)]
    /\ UNCHANGED <<fpc, given, normalized, ff, assigned, sessionVars,
                   threadVars>>

\* f.normalize_extension(path)
CallNormalizeExtension ==
    /\ fpc = "built"
    /\ ret' = [f |-> "normalize_extension",
               v |-> normalize_extension(ff, given.path)]
    /\ UNCHANGED <<fpc, given, normalized, ff, assigned, sessionVars,
                   threadVars>>

\* FileFilter.prepare((f,))
CallPrepare ==
    /\ fpc = "built"
    /\ ret' = [f |-> "prepare", v |-> prepare(<<ff>>)]
    /\ UNCHANGED <<fpc, given, normalized, ff, assigned, sessionVars,
                   threadVars>>

\* FileFilter.validate(raw), raw being what prepare returned
CallValidate ==
    /\ fpc = "built"
    /\ ret.f = "prepare"
    /\ ret' = [f |-> "validate", v |-> validate(ret.v)]
    /\ UNCHANGED <<fpc, given, normalized, ff, assigned, sessionVars,
                   threadVars>>

FilterNext ==
    \/ Call_normalize
    \/ Construct
    \/ GetPattern
    \/ CallMatches
    \/ CallNormalizeExtension
    \/ CallPrepare
    \/ CallValidate

FilterSpec == FilterInit /\ [][FilterNext]_vars

(***************************************************************************)
(* A caller that builds a filter and later assigns to its extensions.      *)
(***************************************************************************)
\* The values a caller assigns: nothing, the wildcard, one extension, two.
AssignLists ==
    { <<>>, <<WILDCARD>>, <<T_jpg>>, <<T_png, <<".", "t", "x", "t">> >> }

SetterInit ==
    /\ SessionIdle
    /\ ThreadsIdle
    /\ fpc = "given"
    /\ given \in {[NoGiven EXCEPT !.label = T_Images, !.extensions = x] :
                      x \in ExtLists}
    /\ normalized = <<>>
    /\ ff = NoFilter
    /\ ret = NoReturn
    /\ assigned = <<>>

\* f.extensions = values
SetExtensions ==
    /\ fpc = "built"
    /\ Len(assigned) < MaxAssign
    /\ \E values \in AssignLists :
        /\ ff' = extensions_setter(ff, values)
        /\ assigned' = Append(assigned, values)
    /\ UNCHANGED <<fpc, given, normalized, ret, sessionVars, threadVars>>

SetterNext ==
    \/ Construct
    \/ SetExtensions

SetterSpec == SetterInit /\ [][SetterNext]_vars

(***************************************************************************)
(* Sessions on several threads.  Each thread runs _get_paths once, in the  *)
(* steps of Spec; what is followed here is the pointers and the COM        *)
(* runtime of each thread (the names read and the value returned are those *)
(* of Spec).  The result codes of the configuration calls are not looked   *)
(* at by the code and are not drawn here.                                  *)
(***************************************************************************)
\* The object at address p is there: someone holds a reference to it.
Live(h, p) == p \in 1..Len(h) /\ h[p].refs > 0
\* The thread that acquired the object a pointer refers to, 0 when the
\* object is gone.
OwnerOf(h, p) == IF Live(h, p) THEN h[p].owner ELSE 0
\* Where a new object may be put: the lowest freed address, or a new one.
FreeAddrs(h) ==
    LET freed == {a \in 1..Len(h) : h[a].refs = 0}
    IN  {a \in freed : \A b \in freed : a <= b} \cup {Len(h) + 1}

AllocAt(h, a, t) ==
    IF a = Len(h) + 1 THEN Append(h, [owner |-> t, refs |-> 1])
    ELSE [h EXCEPT ![a] = [owner |-> t, refs |-> 1]]

\* Release through pointer p: the object now at p loses a reference; when
\* nothing is there the call changes nothing (or faults).
ReleaseAt(h, p) == IF Live(h, p) THEN [h EXCEPT ![p].refs = @ - 1] ELSE h

RECURSIVE ReleaseSeq(_, _)
ReleaseSeq(h, ps) ==
    IF ps = <<>> THEN h ELSE ReleaseSeq(ReleaseAt(h, Head(ps)), Tail(ps))

\* A call a thread made: the method, the pointer, and the thread that had
\* acquired the object the pointer referred to at that time.
TCall(f, p, h) == [f |-> f, p |-> p, of |-> OwnerOf(h, p)]

RECURSIVE ReleaseLog(_, _)
ReleaseLog(h, ps) ==
    IF ps = <<>> THEN <<>>
    ELSE <<TCall("Release", Head(ps), h)>>
             \o ReleaseLog(ReleaseAt(h, Head(ps)), Tail(ps))

\* _get_paths is entered on thread t
ThreadStart(t) ==
    /\ th[t].pc = "idle"
    /\ \E save_mode \in BOOLEAN, init_dir \in BOOLEAN :
        th' = [th EXCEPT ![t] = [NoThread EXCEPT !.pc = "CoInitialize",
                                                 !.save_mode = save_mode,
                                                 !.init_dir = init_dir]]
    /\ UNCHANGED <<heap, com, tcalls, tfaults, sessionVars, filterVars>>

\* lines 422-426
ThreadCoInitialize(t) ==
    /\ th[t].pc = "CoInitialize"
    /\ \E h \in CallResults :
        /\ tfaults + Failed(h) <= MaxFaults
        /\ tfaults' = tfaults + Failed(h)
        /\ IF h < 0
           THEN /\ th' = [th EXCEPT ![t].error = OSError("CoInitialize failed", <<>>),
                                    ![t].pc = "finally"]
                /\ UNCHANGED com
           ELSE /\ th' = [th EXCEPT ![t].initialized = TRUE,
                                    ![t].pc = "CoCreateInstance"]
                /\ com' = [com EXCEPT ![t].init = @ + 1]
    /\ tcalls' = [tcalls EXCEPT ![t] = Append(@, TCall("CoInitialize", 0, heap))]
    /\ UNCHANGED <<heap, sessionVars, filterVars>>

\* lines 428-447
ThreadCoCreateInstance(t) ==
    /\ th[t].pc = "CoCreateInstance"
    /\ \E h \in CallResults, null \in BOOLEAN, a \in FreeAddrs(heap) :
        LET ptr == IF h < 0 \/ null THEN 0 ELSE a
        IN  /\ tfaults + Failed(h) <= MaxFaults
            /\ tfaults' = tfaults + Failed(h)
            /\ is_null_ptr(ptr) => (a = Len(heap) + 1 /\ (h < 0 => ~null))
            /\ heap' = IF is_null_ptr(ptr) THEN heap ELSE AllocAt(heap, a, t)
            /\ IF CreateFailed(h, ptr)
               THEN th' = [th EXCEPT
                             ![t].COM = ptr,
                             ![t].error = OSError("CoCreateInstance failed", <<>>),
                             ![t].pc = "finally"]
               ELSE th' = [th EXCEPT ![t].COM = ptr, ![t].pc = "configure"]
    /\ tcalls' = [tcalls EXCEPT ![t] = Append(@, TCall("CoCreateInstance", 0, heap))]
    /\ UNCHANGED <<com, sessionVars, filterVars>>

\* lines 464-501: the options, then the initial directory when one is given
ThreadConfigure(t) ==
    /\ th[t].pc = "configure"
    /\ IF th[t].init_dir
       THEN \E hc \in CallResults, a \in FreeAddrs(heap) :
                /\ tfaults + Failed(hc) <= MaxFaults
                /\ tfaults' = tfaults + Failed(hc)
                /\ hc < 0 => a = Len(heap) + 1
                /\ heap' = IF hc >= 0 THEN AllocAt(heap, a, t) ELSE heap
                /\ th' = [th EXCEPT ![t].DIR = IF hc >= 0 THEN a ELSE @,
                                    ![t].pc = "Show"]
                /\ tcalls' = [tcalls EXCEPT ![t] = @ \o
                      <<TCall("GetOptions", th[t].COM, heap),
                        TCall("SetOptions", th[t].COM, heap),
                        TCall("SHCreateItemFromParsingName", 0, heap)>>
                      \o (IF hc >= 0
                          THEN <<TCall("SetFolder", th[t].COM, heap)>>
                          ELSE <<>>)]
       ELSE /\ th' = [th EXCEPT ![t].pc = "Show"]
            /\ tcalls' = [tcalls EXCEPT ![t] = @ \o
                  <<TCall("GetOptions", th[t].COM, heap),
                    TCall("SetOptions", th[t].COM, heap)>>]
            /\ UNCHANGED <<heap, tfaults>>
    /\ UNCHANGED <<com, sessionVars, filterVars>>

\* lines 503-513, 532
ThreadShow(t) ==
    /\ th[t].pc = "Show"
    /\ \E h \in ShowResults :
        LET raises == h # c_long(ERROR_CANCELLED) /\ h < 0
        IN  /\ tfaults + (IF raises THEN 1 ELSE 0) <= MaxFaults
            /\ tfaults' = tfaults + (IF raises THEN 1 ELSE 0)
            /\ th' = [th EXCEPT
                  ![t].error =
                      IF raises
                      THEN OSError("Dialog failed with HRESULT", FormatHex(h))
                      ELSE @,
                  ![t].pc =
                      IF h = c_long(ERROR_CANCELLED) \/ h < 0 THEN "finally"
                      ELSE IF th[t].save_mode THEN "extract_save"
                      ELSE "extract_open"]
    /\ tcalls' = [tcalls EXCEPT ![t] = Append(@, TCall("Show", th[t].COM, heap))]
    /\ UNCHANGED <<heap, com, sessionVars, filterVars>>

\* lines 513-530: GetResult, GetName, the item's Release, GetFileTypeIdx
ThreadExtractSave(t) ==
    /\ th[t].pc = "extract_save"
    /\ \E hg \in CallResults, hn \in CallResults, a \in FreeAddrs(heap) :
        /\ tfaults + Failed(hg) + Failed(hn) <= MaxFaults
        /\ tfaults' = tfaults + Failed(hg) + Failed(hn)
        /\ IF hg < 0
           THEN /\ hn = 0 /\ a = Len(heap) + 1
                /\ th' = [th EXCEPT ![t].pc = "finally"]
                /\ tcalls' = [tcalls EXCEPT ![t] =
                      Append(@, TCall("GetResult", th[t].COM, heap))]
                /\ UNCHANGED heap
           ELSE LET got == AllocAt(heap, a, t)
                IN  /\ th' = [th EXCEPT ![t].item = a, ![t].pc = "finally"]
                    /\ heap' = ReleaseAt(got, a)
                    /\ tcalls' = [tcalls EXCEPT ![t] = @ \o
                          <<TCall("GetResult", th[t].COM, heap),
                            TCall("GetName", a, got),
                            TCall("Release", a, got)>>
                          \o (IF hn >= 0
                              THEN <<TCall("GetFileTypeIdx", th[t].COM, heap)>>
                              ELSE <<>>)]
    /\ UNCHANGED <<com, sessionVars, filterVars>>

\* lines 534-539: GetResults, GetCount
ThreadExtractOpen(t) ==
    /\ th[t].pc = "extract_open"
    /\ \E hg \in CallResults, hc \in CallResults, a \in FreeAddrs(heap),
          n \in 1..MaxItems :
        /\ tfaults + Failed(hg) + Failed(hc) <= MaxFaults
        /\ tfaults' = tfaults + Failed(hg) + Failed(hc)
        /\ IF hg < 0
           THEN /\ hc = 0 /\ a = Len(heap) + 1 /\ n = 1
                /\ th' = [th EXCEPT ![t].pc = "finally"]
                /\ tcalls' = [tcalls EXCEPT ![t] =
                      Append(@, TCall("GetResults", th[t].COM, heap))]
                /\ UNCHANGED heap
           ELSE LET got == AllocAt(heap, a, t)
                IN  /\ hc < 0 => n = 1
                    /\ heap' = got
                    /\ th' = [th EXCEPT
                          ![t].mult = a,
                          ![t].pathsnum = IF hc >= 0 THEN n ELSE @,
                          ![t].pc = IF hc >= 0 THEN "loop" ELSE "finally"]
                    /\ tcalls' = [tcalls EXCEPT ![t] = @ \o
                          <<TCall("GetResults", th[t].COM, heap),
                            TCall("GetCount", a, got)>>]
    /\ UNCHANGED <<com, sessionVars, filterVars>>

\* lines 540-564: one pass of the loop
ThreadLoop(t) ==
    /\ th[t].pc = "loop"
    /\ \E hi \in CallResults, hn \in CallResults, cleared \in BOOLEAN,
          a \in FreeAddrs(heap) :
        /\ tfaults + Failed(hi) + Failed(hn) <= MaxFaults
        /\ tfaults' = tfaults + Failed(hi) + Failed(hn)
        /\ IF hi < 0
           THEN /\ hn = 0 /\ a = Len(heap) + 1
                /\ th[t].item = 0 => cleared
                /\ th' = [th EXCEPT ![t].item = IF cleared THEN 0 ELSE @,
                                    ![t].pc = "finally"]
                /\ tcalls' = [tcalls EXCEPT ![t] =
                      Append(@, TCall("GetItemAt", th[t].mult, heap))]
                /\ UNCHANGED heap
           ELSE LET got == AllocAt(heap, a, t)
                IN  /\ ~cleared
                    /\ heap' = ReleaseAt(got, a)
                    /\ th' = [th EXCEPT
                          ![t].item = a,
                          ![t].i = IF hn >= 0 THEN @ + 1 ELSE @,
                          ![t].pc = IF hn >= 0 /\ th[t].i + 1 < th[t].pathsnum
                                    THEN "loop" ELSE "finally"]
                    /\ tcalls' = [tcalls EXCEPT ![t] = @ \o
                          <<TCall("GetItemAt", th[t].mult, heap),
                            TCall("GetName", a, got),
                            TCall("Release", a, got)>>]
    /\ UNCHANGED <<com, sessionVars, filterVars>>

\* The first call of each block inside the try, and the pointer it is made on.
FirstCallOf(t) ==
    CASE th[t].pc = "configure" -> <<"GetOptions", th[t].COM>>
      [] th[t].pc = "Show" -> <<"Show", th[t].COM>>
      [] th[t].pc = "extract_save" -> <<"GetResult", th[t].COM>>
      [] th[t].pc = "extract_open" -> <<"GetResults", th[t].COM>>
      [] th[t].pc = "loop" -> <<"GetItemAt", th[t].mult>>

\* A call inside the try on a pointer whose object is gone may fault
\* (ctypes raises OSError for an access violation): control goes to the
\* finally block.  When it does not fault the block runs as above.
ThreadAccessViolation(t) ==
    /\ th[t].pc \in {"configure", "Show", "extract_save", "extract_open", "loop"}
    /\ ~Live(heap, FirstCallOf(t)[2])
    /\ th' = [th EXCEPT ![t].error = OSError("access violation", <<>>),
                        ![t].pc = "finally"]
    /\ tcalls' = [tcalls EXCEPT ![t] =
          Append(@, TCall(FirstCallOf(t)[1], FirstCallOf(t)[2], heap))]
    /\ UNCHANGED <<heap, com, tfaults, sessionVars, filterVars>>

\* lines 566-576: release what is not null, CoUninitialize, return.  A
\* Release on a pointer whose object is gone may fault and leave the block.
ThreadFinally(t) ==
    /\ th[t].pc = "finally"
    /\ LET ps == free(<<th[t].item, th[t].mult, th[t].DIR, th[t].COM>>)
       IN  \E f \in {0} \cup
                  {k \in 1..Len(ps) :
                      ~Live(ReleaseSeq(heap, SubSeq(ps, 1, k - 1)), ps[k])} :
            LET done == IF f = 0 THEN ps ELSE SubSeq(ps, 1, f)
                uninit == f = 0 /\ th[t].initialized
            IN  /\ heap' = ReleaseSeq(heap, done)
                /\ tcalls' = [tcalls EXCEPT ![t] = @
                      \o ReleaseLog(heap, done)
                      \o (IF uninit THEN <<TCall("CoUninitialize", 0, heap)>>
                          ELSE <<>>)]
                /\ com' = [com EXCEPT ![t].uninit = IF uninit THEN @ + 1 ELSE @]
                /\ th' = [th EXCEPT
                      ![t].error = IF f > 0
                                   THEN OSError("access violation", <<>>)
                                   ELSE @,
                      ![t].pc = IF f = 0 /\ th[t].error.type = "NoneType"
                                THEN "returned" ELSE "raised"]
    /\ UNCHANGED <<tfaults, sessionVars, filterVars>>

ThreadNext ==
    \/ \E t \in Threads : ThreadStart(t)
    \/ \E t \in Threads : ThreadCoInitialize(t)
    \/ \E t \in Threads : ThreadCoCreateInstance(t)
    \/ \E t \in Threads : ThreadConfigure(t)
    \/ \E t \in Threads : ThreadShow(t)
    \/ \E t \in Threads : ThreadExtractSave(t)
    \/ \E t \in Threads : ThreadExtractOpen(t)
    \/ \E t \in Threads : ThreadLoop(t)
    \/ \E t \in Threads : ThreadAccessViolation(t)
    \/ \E t \in Threads : ThreadFinally(t)

ThreadInit == SessionIdle /\ FilterIdle /\ ThreadsReady

ThreadSpec == ThreadInit /\ [][ThreadNext]_vars

(***************************************************************************)
(* Vocabulary of the properties.                                           *)
(***************************************************************************)
Ended == pc \in {"returned", "raised"}
\* Show has returned (hr holds its code)
Shown == dialog.shown > 0
Cancelled == Shown /\ hr = c_long(ERROR_CANCELLED)
Called(f) == \E k \in 1..Len(calls) : calls[k].f = f
ReturnedNone == pc = "returned" /\ result.type = "NoneType"
\* The paths a returned value holds.
ReturnedPaths ==
    IF pc # "returned" \/ result.type = "NoneType" THEN <<>>
    ELSE IF result.type = "str" THEN <<result.v>>
    ELSE result.v

\* Reading a number back from the text of f"{n:#x}".
HexValue(c) == (CHOOSE k \in 1..16 : HexChars[k] = c) - 1

RECURSIVE HexNumber(_)
HexNumber(ds) ==
    IF ds = <<>> THEN 0
    ELSE HexNumber(SubSeq(ds, 1, Len(ds) - 1)) * 16 + HexValue(ds[Len(ds)])

ParseHex(t) ==
    IF t # <<>> /\ Head(t) = "-" THEN 0 - HexNumber(SubSeq(t, 4, Len(t)))
    ELSE HexNumber(SubSeq(t, 3, Len(t)))

\* In open mode, after Show succeeded, a retrieval returned a failure code.
RetrievalFailed ==
    /\ ~args.save_mode
    /\ Shown /\ hr >= 0
    /\ swallowed \cap {"GetCount", "GetItemAt", "GetName"} # {}

\* An open-mode session in which every retrieval succeeded has returned.
OpenSucceeded ==
    /\ pc = "returned"
    /\ ~args.save_mode
    /\ Shown /\ hr >= 0
    /\ swallowed \cap {"GetResults", "GetCount", "GetItemAt", "GetName"} = {}
    /\ Len(shellItems) >= 1

\* A save-mode session has read the chosen name and the active filter index.
SaveRead ==
    /\ args.save_mode
    /\ Called("GetFileTypeIdx")

\* Matching as the specification words it: a path matches a part of a
\* pattern when the part is the wildcard or the lowercased path ends with
\* the part's suffix (the part without its leading *).
PartSuffix(part) == LStrip(part, {"*"})

PathMatchesPart(p, part) ==
    part = WILDCARD \/ EndsWith(Lower(p), PartSuffix(part))

ExpectedSaveName(pat, p) ==
    LET parts == Split(pat, ";")
    IN  IF pat = WILDCARD THEN p
        ELSE IF \E k \in 1..Len(parts) : PathMatchesPart(p, parts[k]) THEN p
        ELSE p \o PartSuffix(parts[1])

\* The options SetOptions was called with, and what GetOptions had read.
OptionsWritten == Len(dialog.written) > 0
WrittenOptions == dialog.written[1]
ReadOptions ==
    IF "GetOptions" \in swallowed THEN {} ELSE dialog.initialOptions
Baseline == {FOS.FORCEFILESYSTEM, FOS.PATHMUSTEXIST, FOS.FILEMUSTEXIST}

OptionsContain ==
    /\ Baseline \subseteq WrittenOptions
    /\ ReadOptions \subseteq WrittenOptions
    /\ op.flags \subseteq WrittenOptions
    /\ args.add_flags \subseteq WrittenOptions

(***************************************************************************)
(* C1.  On every exit path each interface pointer has been released as     *)
(* many times as it was acquired, and at no time more often: no pointer is *)
(* released twice.                                                         *)
(***************************************************************************)
C1_ReleasesEqualAcquires ==
    /\ \A p \in 1..Len(objs) : objs[p].released <= objs[p].acquired
    /\ Ended => \A p \in 1..Len(objs) : objs[p].released = objs[p].acquired

(***************************************************************************)
(* C2.  When the session has returned or raised, every interface pointer   *)
(* it obtained has been released at least once.                            *)
(***************************************************************************)
C2_EveryPointerReleased ==
    Ended => \A p \in 1..Len(objs) : objs[p].released >= 1

(***************************************************************************)
(* C3.  When Show returns the user-cancelled code, whatever the facade     *)
(* operation, the session raises nothing, calls neither GetResult nor      *)
(* GetResults, and returns None (not an empty sequence).                   *)
(***************************************************************************)
C3_CancelReturnsNone ==
    Cancelled =>
        /\ pc \in {"finally", "return", "returned"}
        /\ error.type = "NoneType"
        /\ ~Called("GetResult") /\ ~Called("GetResults")
        /\ paths = <<>>
        /\ pc = "returned" => result.type = "NoneType"

\* C3's case: get_files, cancelled by the user, has returned None.
C3_Witness ==
    /\ Cancelled
    /\ pc = "returned"
    /\ op.name = "get_files"
    /\ result.type = "NoneType"

(***************************************************************************)
(* C4.  A session returns None only if Show returned the user-cancelled    *)
(* code; when Show returned a non-negative code the session, once ended,   *)
(* has returned at least one path or has raised.                           *)
(***************************************************************************)
C4_NoneOnlyOnCancel ==
    /\ ReturnedNone => Cancelled
    /\ (Ended /\ Shown /\ hr >= 0) => (pc = "raised" \/ ReturnedPaths # <<>>)

(***************************************************************************)
(* C5.  When Show returns a negative code other than the user-cancelled    *)
(* code, the session raises an error whose text gives that code, extracts  *)
(* no result and returns no path.                                          *)
(***************************************************************************)
C5_ShowFailureRaises ==
    (Shown /\ hr < 0 /\ hr # c_long(ERROR_CANCELLED)) =>
        /\ pc \in {"finally", "raised"}
        /\ error.type = "OSError"
        /\ error.message = "Dialog failed with HRESULT"
        /\ ParseHex(error.detail) = hr
        /\ ~Called("GetResult") /\ ~Called("GetResults")
        /\ paths = <<>>

\* C5's case: Show failed and the session has raised with the code.
C5_Witness ==
    /\ Shown /\ hr < 0 /\ hr # c_long(ERROR_CANCELLED)
    /\ pc = "raised"
    /\ ParseHex(error.detail) = hr

(***************************************************************************)
(* C6.  In open mode, when GetCount, GetItemAt or GetName returned a       *)
(* failure code after Show succeeded, the session ends with an error and   *)
(* returns none of the paths it had collected.                             *)
(***************************************************************************)
C6_RetrievalFailureRaises ==
    (Ended /\ RetrievalFailed) => (pc = "raised" /\ ReturnedPaths = <<>>)

(***************************************************************************)
(* C7.  When an open-mode session in which every retrieval succeeded       *)
(* returns, the shell having reported the items p0..p(n-1), n >= 1: with   *)
(* multichoice the value is the list p0..p(n-1) in that order, without it  *)
(* the value is the str p0; and no session returns an empty list.          *)
(***************************************************************************)
C7_OpenResult ==
    /\ OpenSucceeded =>
          IF args.multichoice
          THEN result.type = "list" /\ result.v = shellItems
          ELSE result.type = "str" /\ result.v = shellItems[1]
    /\ pc = "returned" => ~(result.type = "list" /\ result.v = <<>>)

\* C7's case: get_files has returned two different items in their order.
C7_Witness ==
    /\ OpenSucceeded
    /\ args.multichoice
    /\ Len(shellItems) = 2
    /\ shellItems[1] # shellItems[2]
    /\ result.type = "list" /\ result.v = shellItems

C9_IndexOutOfRangeKeepsPath ==
    (SaveRead /\ filetypeidx \notin 1..Len(prepared_filters)) =>
        /\ pc # "raised"
        /\ paths = <<path>>
        /\ pc = "returned" => (result.type = "str" /\ result.v = path)

(***************************************************************************)
(* C10, as stated.  The options SetOptions is called with hold the three   *)
(* baseline flags, every bit of the value GetOptions read and every flag   *)
(* the caller passed, and hold ALLOWMULTISELECT exactly when multichoice   *)
(* was asked for or GetOptions read it.                                    *)
(***************************************************************************)
C10_Original ==
    OptionsWritten =>
        /\ OptionsContain
        /\ FOS.ALLOWMULTISELECT \in WrittenOptions
             <=> (args.multichoice \/ FOS.ALLOWMULTISELECT \in ReadOptions)

(***************************************************************************)
(* C10, as amended.  The options SetOptions is called with hold the three  *)
(* baseline flags, every bit of the value GetOptions read and every flag   *)
(* the caller passed, and hold ALLOWMULTISELECT exactly when multichoice   *)
(* was asked for, GetOptions read it, or the caller's flags hold it.       *)
(***************************************************************************)
C10_OptionsComposed ==
    OptionsWritten =>
        /\ OptionsContain
        /\ FOS.ALLOWMULTISELECT \in WrittenOptions
             <=> \/ args.multichoice
                 \/ FOS.ALLOWMULTISELECT \in ReadOptions
                 \/ FOS.ALLOWMULTISELECT \in op.flags

\* C10's case: get_file with no extra flags; what was read is kept and the
\* baseline flags are added.
C10_Witness ==
    /\ OptionsWritten
    /\ op.name = "get_file"
    /\ op.flags = {}
    /\ ReadOptions = {FOS.OVERWRITEPROMPT, FOS.ALLOWMULTISELECT}
    /\ WrittenOptions = Baseline \cup ReadOptions

(***************************************************************************)
(* Vocabulary of the properties about the COM runtime and the order of     *)
(* the calls.                                                              *)
(***************************************************************************)
\* The positions in the log of the calls to f.
CallsOf(f) == {k \in 1..Len(calls) : calls[k].f = f}
\* CoInitialize was called and returned a failure code.
CoInitializeRefused == Called("CoInitialize") /\ comInits.init = 0
\* CoCreateInstance was called and left no dialog object.
InstantiationFailed == is_null_ptr(COM) /\ Called("CoCreateInstance")
\* The calls that configure the dialog object.
ConfigurationCalls ==
    {"GetOptions", "SetOptions", "SetFileType", "SetFileTypeIdx", "SetTitle",
     "SetFileName", "SetOkBtnTxt", "SetFnLabel", "SHCreateItemFromParsingName",
     "SetFolder"}

(***************************************************************************)
(* C11.  CoUninitialize is called exactly once when CoInitialize returned  *)
(* a non-negative code and never when it returned a negative code (the     *)
(* session then raises without creating a dialog object); when it is       *)
(* called it is the last call, after the Release of every interface        *)
(* pointer the session obtained, on every exit path.                       *)
(***************************************************************************)
C11_UninitializeOnce ==
    /\ Cardinality(CallsOf("CoUninitialize")) = comInits.uninit
    /\ comInits.uninit <= comInits.init
    /\ Ended => comInits.uninit = comInits.init
    /\ CoInitializeRefused =>
          /\ pc \in {"finally", "raised"}
          /\ error.type = "OSError"
          /\ ~Called("CoCreateInstance")
          /\ objs = <<>>
    /\ Called("CoUninitialize") =>
          /\ calls[Len(calls)].f = "CoUninitialize"
          /\ \A p \in 1..Len(objs) : objs[p].released >= 1

(***************************************************************************)
(* C12.  When CoCreateInstance returns a negative code or yields a null    *)
(* pointer, the session raises an error, makes no configuration call and   *)
(* no Show, calls Release on no pointer, and has called CoUninitialize     *)
(* exactly once when it ends.                                              *)
(***************************************************************************)
C12_InstantiationFailure ==
    InstantiationFailed =>
        /\ pc \in {"finally", "raised"}
        /\ error.type = "OSError"
        /\ error.message = "CoCreateInstance failed"
        /\ \A k \in 1..Len(calls) :
              calls[k].f \in {"CoInitialize", "CoCreateInstance", "CoUninitialize"}
        /\ pc = "raised" =>
              /\ Cardinality(CallsOf("CoUninitialize")) = 1
              /\ comInits.uninit = 1

\* C12's case: CoCreateInstance returned S_OK with a null pointer, and the
\* session has raised after one CoUninitialize.
C12_Witness ==
    /\ InstantiationFailed
    /\ faults = 0
    /\ pc = "raised"
    /\ comInits.uninit = 1

(***************************************************************************)
(* Vocabulary of the properties about FileFilter.                          *)
(***************************************************************************)
\* An extension as given is a wildcard entry when it is normalized to *.*
IsWildcardEntry(e) == _normalize(e) = WILDCARD
GivenHasWildcard ==
    \E k \in 1..Len(given.extensions) : IsWildcardEntry(given.extensions[k])
GivenOnlyWildcards ==
    \A k \in 1..Len(given.extensions) : IsWildcardEntry(given.extensions[k])
\* The suffixes of the filter built from what was given: each pattern
\* without its leading *.
GivenSuffixes ==
    [k \in 1..Len(given.extensions) |-> PartSuffix(_normalize(given.extensions[k]))]
\* What matches is to answer for the given extensions and path.
ExpectedMatch ==
    IF given.extensions = <<>> \/ GivenHasWildcard THEN TRUE
    ELSE \E k \in 1..Len(given.extensions) :
             EndsWith(Lower(given.path), GivenSuffixes[k])
Returned(f) == ret.f = f
\* The scenario FileFilter("Images", ["png", "jpg"]).
ImagesGiven ==
    /\ fpc = "built"
    /\ given.label = T_Images
    /\ given.extensions = <<T_png, T_jpg>>
T_a_PNG == <<"a", ".", "P", "N", "G">>
T_a_txt == <<"a", ".", "t", "x", "t">>
T_ImagesPattern == <<"*", ".", "p", "n", "g", ";", "*", ".", "j", "p", "g">>
T_ImagesLabel ==
    <<"I", "m", "a", "g", "e", "s", " ", "(", "p", "n", "g", ",", " ",
      "j", "p", "g", ")">>

(***************************************************************************)
(* C14.  _normalize is idempotent: for every extension text e, passing     *)
(* _normalize(e) through _normalize again returns it unchanged.            *)
(***************************************************************************)
C14_NormalizeIdempotent ==
    \A k \in 2..Len(normalized) : normalized[k] = normalized[k - 1]

\* C14's case: "a." was normalized to "*.a.*", and that was normalized again.
C14_Witness ==
    /\ given.ext = <<"a", ".">>
    /\ Len(normalized) = 2
    /\ normalized[1] = <<"*", ".", "a", ".", "*">>
    /\ normalized[2] = normalized[1]

(***************************************************************************)
(* C15, as stated.  The pattern of a filter is "*.*" exactly when the      *)
(* extension list given is empty or holds only wildcard entries, however   *)
(* many.                                                                   *)
(***************************************************************************)
C15_Original ==
    Returned("pattern") =>
        (ret.v = WILDCARD <=> (given.extensions = <<>> \/ GivenOnlyWildcards))

(***************************************************************************)
(* C15, as amended.  The pattern of a filter is "*.*" exactly when the     *)
(* extension list given is empty or is one wildcard entry.                 *)
(***************************************************************************)
C15_PatternWildcard ==
    Returned("pattern") =>
        (ret.v = WILDCARD <=>
            \/ given.extensions = <<>>
            \/ Len(given.extensions) = 1 /\ GivenOnlyWildcards)

\* C15's case: the one extension "*" gives the pattern "*.*".
C15_Witness ==
    /\ Returned("pattern")
    /\ given.extensions = << <<"*">> >>
    /\ ret.v = WILDCARD

(***************************************************************************)
(* C16.  matches(path) is true for every path when the filter has no       *)
(* extensions or includes the wildcard; otherwise it is true exactly when  *)
(* the lowercased path ends with one of the filter's suffixes.  For        *)
(* FileFilter("Images", ["png", "jpg"]), matches("a.PNG") is true and      *)
(* matches("a.txt") is false.                                              *)
(***************************************************************************)
C16_Matches ==
    Returned("matches") =>
        /\ ret.v = ExpectedMatch
        /\ (ImagesGiven /\ given.path = T_a_PNG) => ret.v = TRUE
        /\ (ImagesGiven /\ given.path = T_a_txt) => ret.v = FALSE

\* C16's case: the Images filter was asked about a.PNG and said yes.
C16_Witness ==
    /\ Returned("matches")
    /\ ImagesGiven
    /\ given.path = T_a_PNG
    /\ ret.v = TRUE

(***************************************************************************)
(* C17, as stated.  normalize_extension returns the path unchanged when    *)
(* matches(path) is true and otherwise the path followed by the first      *)
(* pattern as it is written; for FileFilter("Images", ["png", "jpg"]) the  *)
(* pattern is "*.png;*.jpg", the label is "Images (png, jpg)" and          *)
(* normalize_extension("a") is "a*.png".                                   *)
(***************************************************************************)
C17_Original ==
    /\ Returned("normalize_extension") =>
          /\ ret.v = IF ExpectedMatch THEN given.path
                     ELSE given.path \o _normalize(given.extensions[1])
          /\ (ImagesGiven /\ given.path = <<"a">>) =>
                ret.v = <<"a", "*", ".", "p", "n", "g">>
    /\ ImagesGiven => ff.label = T_ImagesLabel
    /\ (ImagesGiven /\ Returned("pattern")) => ret.v = T_ImagesPattern

(***************************************************************************)
(* C17, as amended.  normalize_extension returns the path unchanged when   *)
(* matches(path) is true and otherwise the path followed by the first      *)
(* pattern without its leading *; for FileFilter("Images", ["png", "jpg"]) *)
(* the pattern is "*.png;*.jpg", the label is "Images (png, jpg)" and      *)
(* normalize_extension("a") is "a.png".                                    *)
(***************************************************************************)
C17_NormalizeExtension ==
    /\ Returned("normalize_extension") =>
          /\ ret.v = IF ExpectedMatch THEN given.path
                     ELSE given.path \o GivenSuffixes[1]
          /\ (ImagesGiven /\ given.path = <<"a">>) =>
                ret.v = <<"a", ".", "p", "n", "g">>
    /\ ImagesGiven => ff.label = T_ImagesLabel
    /\ (ImagesGiven /\ Returned("pattern")) => ret.v = T_ImagesPattern

\* C17's case: the Images filter was given the path a and returned a.png.
C17_Witness ==
    /\ Returned("normalize_extension")
    /\ ImagesGiven
    /\ given.path = <<"a">>
    /\ ret.v = <<"a", ".", "p", "n", "g">>

(***************************************************************************)
(* Vocabulary of the properties about filters, failure codes and the       *)
(* initial directory.                                                      *)
(***************************************************************************)
\* The first and the last position in the log of a call to f (f was called).
FirstCall(f) == CHOOSE k \in CallsOf(f) : \A m \in CallsOf(f) : k <= m
LastCall(f) == CHOOSE k \in CallsOf(f) : \A m \in CallsOf(f) : m <= k
\* The session is past the block that configures the filters.
PastFilters == dialog.written # <<>> /\ pc # "filters"
\* The entries the caller's filters stand for, in the caller's order.
SuppliedFilters == SelectSeq(args.file_type_filters, IsFileFilter)
SuppliedEntries ==
    [k \in 1..Len(SuppliedFilters) |->
        <<SuppliedFilters[k].label, pattern(SuppliedFilters[k])>>]
\* The name save mode appends when the k-th supplied entry is the active one.
DecodedWith(k) ==
    normalize_extension(
        FileFilter(SuppliedEntries[k][1], Split(SuppliedEntries[k][2], ";")),
        path)
\* The calls whose failure code the claim says is never swallowed.
NeverSwallowed ==
    {"GetOptions", "SetOptions", "SetFileType", "SetFileTypeIdx", "SetTitle",
     "SetFileName", "SetOkBtnTxt", "SetFnLabel", "SetFolder", "GetResult",
     "GetResults", "GetCount"}
\* An initial directory was given and did not resolve / did resolve.
DirUnresolved == Called("SHCreateItemFromParsingName") /\ is_null_ptr(DIR)
DirResolved == ~is_null_ptr(DIR)
\* The Release calls made on pointer p.
ReleasesOf(p) == {k \in CallsOf("Release") : calls[k].p = p}

(***************************************************************************)
(* C18.  Exactly when the caller supplied at least one filter, the session *)
(* calls SetFileType with the entries in the caller's order and right      *)
(* after it SetFileTypeIdx with 1; and in save mode an active index k in   *)
(* 1..N is decoded with the k-th of those same entries.                    *)
(***************************************************************************)
C18_FilterOrder ==
    /\ ~PastFilters =>
          /\ prepared_filters = <<>>
          /\ ~Called("SetFileType") /\ ~Called("SetFileTypeIdx")
    /\ PastFilters =>
          /\ prepared_filters = SuppliedEntries
          /\ CallsOf("SetFileType") # {} <=> SuppliedFilters # <<>>
          /\ SuppliedFilters = <<>> => CallsOf("SetFileTypeIdx") = {}
          /\ SuppliedFilters # <<>> =>
                /\ Cardinality(CallsOf("SetFileType")) = 1
                /\ CallsOf("SetFileTypeIdx") = {FirstCall("SetFileType") + 1}
                /\ "SetFileType" \notin swallowed =>
                      dialog.fileTypes = SuppliedEntries
                /\ "SetFileTypeIdx" \notin swallowed => dialog.fileTypeIdx = 1
    /\ (args.save_mode /\ filetypeidx \in 1..Len(SuppliedFilters) /\ SaveRead) =>
          paths = <<DecodedWith(filetypeidx)>>

\* C18's case: set_file with the filters Text and All registered; the shell
\* reports the second as active, and the name out is kept as it is.
C18_Witness ==
    /\ SaveRead
    /\ dialog.fileTypes = SuppliedEntries
    /\ Len(SuppliedEntries) = 2
    /\ SuppliedFilters = <<F_Text, F_All>>
    /\ filetypeidx = 2
    /\ path = T_out
    /\ paths = <<T_out>>

(***************************************************************************)
(* C19.  Whenever GetOptions, SetOptions, SetFileType, SetFileTypeIdx,     *)
(* SetTitle, SetFileName, SetOkBtnTxt, SetFnLabel, SetFolder, GetResult,   *)
(* GetResults or GetCount has returned a negative code, the session has    *)
(* raised an error: no such failure is silently swallowed.                 *)
(***************************************************************************)
C19_NoFailureSwallowed ==
    swallowed \cap NeverSwallowed # {} =>
        /\ pc \in {"finally", "raised"}
        /\ error.type = "OSError"

(***************************************************************************)
(* C20.  When the initial directory given does not resolve, the session    *)
(* does not fail: SetFolder is not called, Show is still called and no     *)
(* Release is made on a folder item.  When it resolves, SetFolder is       *)
(* called before Show, and when the session ends the folder item has been  *)
(* released, after Show.                                                   *)
(***************************************************************************)
C20_InitialDirectory ==
    /\ DirUnresolved =>
          /\ ~Called("SetFolder")
          /\ \A p \in 1..Len(objs) : objs[p].kind # "folder"
          /\ pc = "Show" => error.type = "NoneType"
          /\ pc \notin {"folder", "Show"} => Called("Show")
    /\ DirResolved =>
          /\ Called("SetFolder")
          /\ "SetFolder" \notin swallowed => dialog.folder = DIR
          /\ Called("Show") => FirstCall("SetFolder") < FirstCall("Show")
          /\ Ended =>
                /\ Called("Show")
                /\ ReleasesOf(DIR) # {}
                /\ \A k \in ReleasesOf(DIR) : k > LastCall("Show")

(***************************************************************************)
(* Vocabulary of the properties about sessions on several threads.         *)
(***************************************************************************)
ThreadEnded(t) == th[t].pc \in {"returned", "raised"}
\* The calls thread t made through a pointer.
PointerCalls(t) == {k \in 1..Len(tcalls[t]) : tcalls[t][k].p # 0}
\* Thread t's COM runtime was initialized as often as it was uninitialized.
Paired(t) == com[t].init = com[t].uninit
\* Thread t made a call through a pointer whose object another thread's
\* session had acquired.
UsedForeign(t) == \E k \in PointerCalls(t) : tcalls[t][k].of \notin {0, t}

(***************************************************************************)
(* C13.  However the sessions of different threads interleave, each        *)
(* thread's session has paired its CoInitialize with a CoUninitialize on   *)
(* its own thread when it ends, and no thread makes a call or a Release    *)
(* through a pointer to an object that another thread's session acquired.  *)
(***************************************************************************)
C13_ThreadsIndependent ==
    \A t \in Threads :
        /\ ThreadEnded(t) => Paired(t)
        /\ ~UsedForeign(t)

(***************************************************************************)
(* Vocabulary of the properties about the facade operations.               *)
(***************************************************************************)
\* A facade operation was called.
Started == op.name # "none"
\* What the session was started with, beside the texts the caller passes
\* through: mode, multi-select, filters, flags.
SessionParameters ==
    [save_mode |-> args.save_mode, multichoice |-> args.multichoice,
     file_type_filters |-> args.file_type_filters,
     add_flags |-> args.add_flags]
\* The caller passed a filter sequence that is not empty.
FiltersSupplied == op.file_type_filters # <<>>

(***************************************************************************)
(* C21.  Each facade operation maps to one session with fixed parameters:  *)
(* get_dir runs open mode with PICKFOLDERS OR-ed into the caller's flags,  *)
(* no filters and no multi-select; get_file runs open mode without         *)
(* multi-select; get_files runs open mode with multi-select, and the       *)
(* options it sets hold ALLOWMULTISELECT; set_file runs save mode without  *)
(* multi-select and adds STRICTFILETYPES exactly when the supplied filter  *)
(* sequence is non-empty; in all four the caller's flags are OR-ed in      *)
(* unchanged, and get_file, get_files and set_file pass the caller's       *)
(* filters on.                                                             *)
(***************************************************************************)
C21_FacadeParameters ==
    Started =>
        /\ op.name = "get_dir" =>
              SessionParameters =
                  [save_mode |-> FALSE, multichoice |-> FALSE,
                   file_type_filters |-> <<>>,
                   add_flags |-> {FOS.PICKFOLDERS} \cup op.flags]
        /\ op.name = "get_file" =>
              SessionParameters =
                  [save_mode |-> FALSE, multichoice |-> FALSE,
                   file_type_filters |-> op.file_type_filters,
                   add_flags |-> op.flags]
        /\ op.name = "get_files" =>
              /\ SessionParameters =
                    [save_mode |-> FALSE, multichoice |-> TRUE,
                     file_type_filters |-> op.file_type_filters,
                     add_flags |-> op.flags]
              /\ OptionsWritten => FOS.ALLOWMULTISELECT \in WrittenOptions
        /\ op.name = "set_file" =>
              SessionParameters =
                  [save_mode |-> TRUE, multichoice |-> FALSE,
                   file_type_filters |-> op.file_type_filters,
                   add_flags |->
                       IF FiltersSupplied
                       THEN {FOS.STRICTFILETYPES} \cup op.flags
                       ELSE op.flags]
        /\ OptionsWritten => op.flags \subseteq WrittenOptions

\* C21's case: set_file was called without filters and with flags of the
\* caller's; the options it set hold those flags and not STRICTFILETYPES.
C21_Witness ==
    /\ op.name = "set_file"
    /\ ~FiltersSupplied
    /\ op.flags # {}
    /\ OptionsWritten
    /\ FOS.STRICTFILETYPES \notin WrittenOptions

(***************************************************************************)
(* Vocabulary of the properties about the order of the calls on the dialog *)
(* object.                                                                 *)
(***************************************************************************)
\* The methods invoked on the dialog object, in order.
DialogCalls ==
    IF is_null_ptr(COM) THEN <<>>
    ELSE LET onDialog == SelectSeq(calls, LAMBDA c : c.p = COM)
         IN  [k \in 1..Len(onDialog) |-> onDialog[k].f]
\* The positions of method f among them.
DialogCallsOf(f) == {k \in 1..Len(DialogCalls) : DialogCalls[k] = f}
\* The part of the session a method on the dialog object belongs to:
\* configuration, Show, result extraction, the final Release.
PhaseOf(f) ==
    IF f \in ConfigurationCalls THEN 1
    ELSE IF f = "Show" THEN 2
    ELSE IF f \in {"GetResult", "GetResults", "GetFileTypeIdx"} THEN 3
    ELSE IF f = "Release" THEN 4
    ELSE 0
\* The session registers filters.
FiltersExist == prepare(args.file_type_filters) # <<>>

(***************************************************************************)
(* C22.  In every session the calls on the dialog object are ordered:      *)
(* Show is invoked at most once, only after the dialog object was created  *)
(* and after SetOptions and (when filters exist) SetFileType and           *)
(* SetFileTypeIdx; GetResult or GetResults is invoked only after Show      *)
(* returned a non-negative code; GetResult is invoked only in save mode    *)
(* and GetResults only in open mode; and no method other than the final    *)
(* Release is invoked on the dialog object after result extraction ends:   *)
(* the methods go from configuration to Show to extraction to one Release, *)
(* never back.                                                             *)
(***************************************************************************)
C22_DialogCallOrder ==
    LET shows == CallsOf("Show")
        reads == CallsOf("GetResult") \cup CallsOf("GetResults")
        phases == [k \in 1..Len(DialogCalls) |-> PhaseOf(DialogCalls[k])]
    IN  /\ Cardinality(shows) <= 1
        /\ \A s \in shows :
              /\ ~is_null_ptr(COM) /\ objs[COM].kind = "dialog"
              /\ calls[s].p = COM
              /\ \E k \in 1..(s - 1) : calls[k].f = "CoCreateInstance"
              /\ \E k \in 1..(s - 1) : calls[k].f = "SetOptions"
              /\ FiltersExist =>
                    /\ \E k \in 1..(s - 1) : calls[k].f = "SetFileType"
                    /\ \E k \in 1..(s - 1) : calls[k].f = "SetFileTypeIdx"
        /\ \A k \in reads :
              /\ hr >= 0
              /\ \E s \in shows : s < k
              /\ calls[k].f = "GetResult" => args.save_mode
              /\ calls[k].f = "GetResults" => ~args.save_mode
        /\ \A k \in 1..Len(phases) :
              /\ phases[k] > 0
              /\ k > 1 => phases[k - 1] <= phases[k]
              /\ phases[k] = 4 => k = Len(phases)

\* C22's case: a save session with filters has ended; on the dialog object
\* Show came once, GetResult and GetFileTypeIdx after it, Release last.
C22_Witness ==
    /\ Ended
    /\ args.save_mode /\ FiltersExist
    /\ Cardinality(DialogCallsOf("Show")) = 1
    /\ DialogCallsOf("GetResult") # {}
    /\ DialogCallsOf("GetFileTypeIdx") # {}
    /\ DialogCalls[Len(DialogCalls)] = "Release"

(***************************************************************************)
(* Vocabulary of the properties about FileFilter.prepare and               *)
(* FileFilter.validate.                                                    *)
(***************************************************************************)
\* validate has returned the filter rebuilt from the pair prepare made of ff.
RoundTripped == ret.f = "validate" /\ Len(ret.v) = 1
Rebuilt == ret.v[1]
\* Some extension of the caller's holds the separator of patterns.
SeparatorGiven ==
    \E k \in 1..Len(given.extensions) :
        \E n \in 1..Len(given.extensions[k]) : given.extensions[k][n] = ";"
T_b_jpg == <<"b", ".", "j", "p", "g">>

(***************************************************************************)
(* C23.  For every FileFilter f, converting it to a raw (label, pattern)   *)
(* pair with FileFilter.prepare and back with FileFilter.validate yields a *)
(* filter with the same pattern as f and the same matches() and            *)
(* normalize_extension() result for every path, so the extension decision  *)
(* made in save mode on the reconstructed filter equals the one the        *)
(* caller's original filter would make.                                    *)
(***************************************************************************)
C23_RoundTrip ==
    RoundTripped =>
        /\ Rebuilt.class = "FileFilter"
        /\ pattern(Rebuilt) = pattern(ff)
        /\ \A q \in FilterPaths :
              /\ matches(Rebuilt, q) = matches(ff, q)
              /\ normalize_extension(Rebuilt, q) = normalize_extension(ff, q)

(***************************************************************************)
(* Vocabulary of the properties about the label of a FileFilter.           *)
(***************************************************************************)
\* The extensions last given to the filter, by the constructor or by an
\* assignment.
CurrentGiven ==
    IF assigned = <<>> THEN given.extensions ELSE assigned[Len(assigned)]
\* An extension as the label lists it: without the leading * and dot.
Listed(ext) == LStrip(_normalize(ext), {"*", "."})
\* The label supplied, followed by one parenthesised list of the given
\* extensions; the label alone for no extensions or a wildcard among them.
ExpectedLabel(label, extensions) ==
    IF extensions = <<>>
         \/ \E k \in 1..Len(extensions) : IsWildcardEntry(extensions[k])
    THEN label
    ELSE label \o <<" ", "(">>
               \o Join([k \in 1..Len(extensions) |-> Listed(extensions[k])],
                       <<",", " ">>)
               \o <<")">>

(***************************************************************************)
(* C24.  After any sequence of assignments to a FileFilter's extensions    *)
(* (the constructor's assignment followed by zero or more later            *)
(* assignments), the label equals the label originally supplied followed   *)
(* by exactly one parenthesised list of the current extensions, or the     *)
(* original label alone when the current extensions are empty or include   *)
(* the wildcard; parenthesised suffixes from earlier assignments do not    *)
(* accumulate.                                                             *)
(***************************************************************************)
C24_LabelOfCurrentExtensions ==
    fpc = "built" => ff.label = ExpectedLabel(given.label, CurrentGiven)

====
